---- MODULE Spec2Model ----
(***************************************************************************)
(* A model of the `moving` crate (src/src/lib.rs): move_vec_to_array, the  *)
(* slot containers MovableArray<T, N> and MovableVec<T>, and the           *)
(* construction entry points nmovable / movable / ToNMovable / ToMovable.  *)
(*                                                                         *)
(* A Vec<T> is a record [kind, elems, cap]: its elements in order and its  *)
(* capacity.  An array [T; N] is the same record with kind "Array" and     *)
(* cap = N.  Option<T> is a sequence of length 0 (None) or 1 (Some(x)).    *)
(* Rust indices are 0-based; At(s, i) reads position i of a sequence.      *)
(***************************************************************************)
EXTENDS Integers, Sequences, FiniteSets, TLC

\* ---------------------------------------------------------------- bounds
MaxLen == 2      \* longest source collection
MaxVal == 2      \* element values are 1..MaxVal
MaxSlack == 1    \* a Vec's capacity exceeds its length by at most this

T == 1..MaxVal
MaxN == MaxLen + 1          \* const-generic sizes N, S and indices range over 0..MaxN
Sizes == 0..MaxN

\* ---------------------------------------------------------------- values
None == <<>>
Some(x) == <<x>>
OptionT == {None} \cup {Some(x) : x \in T}

Ok(v) == [tag |-> "Ok", value |-> v]
LengthUnmatch(expected, got) == [tag |-> "Err", expected |-> expected, got |-> got]

Vec(elems, cap) == [kind |-> "Vec", elems |-> elems, cap |-> cap]
Array(elems) == [kind |-> "Array", elems |-> elems, cap |-> Len(elems)]
Moved == [kind |-> "Moved", elems |-> <<>>, cap |-> 0]

SeqsUpTo(S, n) == UNION {[1..k -> S] : k \in 0..n}

\* Every Vec<T> (len <= capacity always) and every [T; N] a caller can hand in.
VecSources ==
    {Vec(e, Len(e) + k) : e \in SeqsUpTo(T, MaxLen), k \in 0..MaxSlack}
ArraySources == {Array(e) : e \in SeqsUpTo(T, MaxLen)}
Sources == VecSources \cup ArraySources

At(s, i) == s[i + 1]
InBounds(s, i) == i >= 0 /\ i < Len(s)

\* ------------------------------------------------------ move_vec_to_array
\* Faulty variant: the pointer is never advanced, every entry is read from offset 0.
ReadArray_first(elems, N) == [i \in 1..N |-> elems[1]]

\* ptr.cast::<[T; N]>().read(): the first N elements of the buffer, in order.
ReadArray(elems, N) == [i \in 1..N |-> elems[i]]

\* Faulty variant: the capacity is not checked.
move_vec_to_array_len_only(vec, N) ==
    IF Len(vec.elems) # N
    THEN LengthUnmatch(N, Len(vec.elems))
    ELSE Ok(ReadArray(vec.elems, N))

move_vec_to_array(vec, N) ==
    IF Len(vec.elems) # N \/ vec.cap # N
    THEN LengthUnmatch(N, Len(vec.elems))
    ELSE Ok(ReadArray(vec.elems, N))

\* ---------------------------------------------------------- std helpers
\* The k-th call of iter.next() on vec.into_iter() / array.into_iter().
IterNext(elems, k) == IF k <= Len(elems) THEN Some(elems[k]) ELSE None

\* core::array::from_fn::<Option<T>, N, _>(|_| iter.next())
from_fn(N, elems) == [k \in 1..N |-> IterNext(elems, k)]

\* Faulty variant: the vector is grown by push, so its capacity is amortised (0, 4, 8, ...).
collect_grown(items) == Vec(items, 4 * ((Len(items) + 3) \div 4))

\* Iterator::collect::<Vec<_>>() of an exact-size iterator: capacity == length.
collect(items) == Vec(items, Len(items))

\* What an operation on a container leaves behind and hands back.
Outcome(s, out) == [slots |-> s, out |-> out, panic |-> FALSE]
Panic(s) == [slots |-> s, out |-> <<>>, panic |-> TRUE]

\* range.map(|i| self.0.get_mut(i).and_then(|v| v.take())), index by index
\* in ascending order; a Range with start >= end is empty.
RECURSIVE TakeEach(_, _, _, _)
TakeEach(s, i, end, acc) ==
    IF i >= end THEN [slots |-> s, out |-> acc]
    ELSE IF InBounds(s, i)
         THEN TakeEach([s EXCEPT ![i + 1] = None], i + 1, end, Append(acc, At(s, i)))
         ELSE TakeEach(s, i + 1, end, Append(acc, None))

\* The same walk, but an index naming no slot contributes nothing (used by faulty variants only).
RECURSIVE TakeEachSkip(_, _, _, _)
TakeEachSkip(s, i, end, acc) ==
    IF i >= end THEN [slots |-> s, out |-> acc]
    ELSE IF InBounds(s, i)
         THEN TakeEachSkip([s EXCEPT ![i + 1] = None], i + 1, end, Append(acc, At(s, i)))
         ELSE TakeEachSkip(s, i + 1, end, acc)

\* Vec::remove(index) followed by push(None) (used by faulty variants only).
RemoveThenPush(s, index) ==
    Append(SubSeq(s, 1, index) \o SubSeq(s, index + 2, Len(s)), None)

Reverse(s) == [k \in 1..Len(s) |-> s[Len(s) - k + 1]]

\* ------------------------------------------------------------ MovableArray
\* Faulty variant: the capacity is not checked.
MovableArray_from_vec_len_only(vec, N) ==
    IF Len(vec.elems) # N
    THEN LengthUnmatch(N, Len(vec.elems))
    ELSE Ok(from_fn(N, vec.elems))

MovableArray_from_vec(vec, N) ==
    IF Len(vec.elems) # N \/ vec.cap # N
    THEN LengthUnmatch(N, Len(vec.elems))
    ELSE Ok(from_fn(N, vec.elems))

MovableArray_from_array(array) == from_fn(Len(array.elems), array.elems)

\* Faulty variant: the slot is removed and a None appended, shifting the later slots down.
MovableArray_take_remove(s, index) ==
    IF ~InBounds(s, index) THEN Panic(s)
    ELSE Outcome(RemoveThenPush(s, index), At(s, index))

MovableArray_take(s, index) ==
    IF ~InBounds(s, index) THEN Panic(s)
    ELSE Outcome([s EXCEPT ![index + 1] = None], At(s, index))

\* Faulty variant: the range is walked and collected in descending order.
MovableArray_take_range_vec_rev(s, range) ==
    LET r == TakeEach(s, range[1], range[2], <<>>)
    IN  Outcome(r.slots, collect(Reverse(r.out)))

MovableArray_take_range_vec(s, range) ==
    LET r == TakeEach(s, range[1], range[2], <<>>)
    IN  Outcome(r.slots, collect(r.out))

MovableArray_take_range_array(s, range, S) ==
    LET r == MovableArray_take_range_vec(s, range)
    IN  Outcome(r.slots, move_vec_to_array(r.out, S))

MovableArray_len(s, N) == N

MovableArray_into_inner(s) == s

MovableArray_map(s, f) == [k \in 1..Len(s) |-> f[IterNext(s, k)[1]]]

MovableArray_index(s, index) ==
    IF ~InBounds(s, index) THEN Panic(s) ELSE Outcome(s, At(s, index))

\* index_mut hands out &mut Option<T>; v is what the caller stores through it.
MovableArray_index_mut(s, index, v) ==
    IF ~InBounds(s, index) THEN Panic(s)
    ELSE Outcome([s EXCEPT ![index + 1] = v], <<>>)

\* -------------------------------------------------------------- MovableVec
MovableVec_from_vec(v) == [k \in 1..Len(v.elems) |-> Some(v.elems[k])]

RECURSIVE PushAll(_, _, _)
PushAll(elems, k, vec) ==
    IF IterNext(elems, k) = None THEN vec
    ELSE PushAll(elems, k + 1, Append(vec, Some(IterNext(elems, k)[1])))

MovableVec_from_array(arr) == PushAll(arr.elems, 1, <<>>)

\* Faulty variant: the slot is removed and a None appended, shifting the later slots down.
MovableVec_take_remove(s, index) ==
    IF ~InBounds(s, index) THEN Panic(s)
    ELSE Outcome(RemoveThenPush(s, index), At(s, index))

MovableVec_take(s, index) ==
    IF ~InBounds(s, index) THEN Panic(s)
    ELSE Outcome([s EXCEPT ![index + 1] = None], At(s, index))

\* Faulty variant: an index that names no slot is skipped (filter_map instead of map).
MovableVec_take_range_vec_skip(s, range) ==
    LET r == TakeEachSkip(s, range[1], range[2], <<>>)
    IN  Outcome(r.slots, collect(r.out))

MovableVec_take_range_vec(s, range) ==
    LET r == TakeEach(s, range[1], range[2], <<>>)
    IN  Outcome(r.slots, collect(r.out))

MovableVec_take_range_array(s, range, S) ==
    LET r == MovableVec_take_range_vec(s, range)
    IN  Outcome(r.slots, move_vec_to_array(r.out, S))

MovableVec_len(s) == Len(s)

MovableVec_into_inner(s) == s

\* Faulty variant: filter_map, slots that map to None are dropped.
MovableVec_map_filter(s, f) ==
    SelectSeq([k \in 1..Len(s) |-> f[s[k]]], LAMBDA o : o # None)

MovableVec_map(s, f) == [k \in 1..Len(s) |-> f[s[k]]]

\* ------------------------------------------------------ construction facade
nmovable(input, N) ==
    IF input.kind = "Array" THEN Ok(MovableArray_from_array(input))
    ELSE MovableArray_from_vec(input, N)

Vec_to_nmovable(self, N) == MovableArray_from_vec(self, N)

Array_to_nmovable(self) == Ok(MovableArray_from_array(self))

movable(input) ==
    IF input.kind = "Array" THEN MovableVec_from_array(input)
    ELSE MovableVec_from_vec(input)

Vec_to_movable(self) == MovableVec_from_vec(self)

Array_to_movable(self) == MovableVec_from_array(self)

\* ------------------------------------------------------------------ state
VARIABLES
    pc,       \* the caller's position: "start" (it owns src), "live" (it holds a
              \* container), "returned" (a call on the container has just
              \* returned ret), "done" (nothing left to call)
    src,      \* the caller's Vec<T> or [T; N], Moved once handed over
    flavor,   \* "MovableArray" or "MovableVec" ("none" before construction)
    N,        \* the const-generic size of the MovableArray (0 otherwise)
    slots,    \* the container's field .0
    ret,      \* the last call: its name, arguments, return value, and whether it panicked
    prev,     \* history: slots before the last call
    orig,     \* history: the elements of the source the container was built from
    taken     \* history: the indices whose content a take or a range take
              \* has moved out of this container

vars == <<pc, src, flavor, N, slots, ret, prev, orig, taken>>

Call(op, args, out, panic) == [op |-> op, args |-> args, out |-> out, panic |-> panic]
NoCall == Call("none", <<>>, <<>>, FALSE)

\* The fn(Option<T>) -> Option<R> arguments handed to map (R = T here).
FnIdentity == [o \in OptionT |-> o]
FnNone == [o \in OptionT |-> None]
FnOrDefault == [o \in OptionT |-> IF o = None THEN Some(1) ELSE o]
FnSucc == [o \in OptionT |-> IF o = None THEN None ELSE Some((o[1] % MaxVal) + 1)]
Fns == {FnIdentity, FnNone, FnOrDefault, FnSucc}

Init ==
    /\ pc = "start"
    /\ src \in Sources
    /\ flavor = "none"
    /\ N = 0
    /\ slots = <<>>
    /\ ret = NoCall
    /\ prev = <<>>
    /\ orig = <<>>
    /\ taken = {}

\* move_vec_to_array::<T, n>(src)
CallMoveVecToArray(n) ==
    /\ pc = "start"
    /\ src.kind = "Vec"
    /\ ret' = Call("move_vec_to_array", <<src, n>>, move_vec_to_array(src, n), FALSE)
    /\ pc' = "done"
    /\ src' = Moved
    /\ UNCHANGED <<flavor, N, slots, prev, orig, taken>>

\* The entry points that build a MovableArray<T, n>; an array source fixes n.
FixedEntries == {"nmovable", "to_nmovable", "MovableArray::from"}

BuildFixed(entry, input, n) ==
    CASE entry = "nmovable" -> nmovable(input, n)
      [] entry = "to_nmovable" ->
            IF input.kind = "Vec" THEN Vec_to_nmovable(input, n)
            ELSE Array_to_nmovable(input)
      [] entry = "MovableArray::from" ->
            IF input.kind = "Vec" THEN MovableArray_from_vec(input, n)
            ELSE Ok(MovableArray_from_array(input))

ConstructFixed(entry, n) ==
    /\ pc = "start"
    /\ src.kind = "Array" => n = Len(src.elems)
    /\ LET r == BuildFixed(entry, src, n)
       IN  /\ ret' = Call(entry, <<src, n>>, r, FALSE)
           /\ src' = Moved
           /\ IF r.tag = "Ok"
              THEN /\ pc' = "returned"
                   /\ flavor' = "MovableArray"
                   /\ N' = n
                   /\ slots' = r.value
                   /\ orig' = src.elems
              ELSE /\ pc' = "done"
                   /\ UNCHANGED <<flavor, N, slots, orig>>
    /\ UNCHANGED <<prev, taken>>

\* The entry points that build a MovableVec<T>.
DynEntries == {"movable", "to_movable", "MovableVec::from"}

BuildDyn(entry, input) ==
    CASE entry = "movable" -> movable(input)
      [] entry = "to_movable" ->
            IF input.kind = "Vec" THEN Vec_to_movable(input)
            ELSE Array_to_movable(input)
      [] entry = "MovableVec::from" ->
            IF input.kind = "Vec" THEN MovableVec_from_vec(input)
            ELSE MovableVec_from_array(input)

ConstructDyn(entry) ==
    /\ pc = "start"
    /\ LET r == BuildDyn(entry, src)
       IN  /\ ret' = Call(entry, <<src>>, Ok(r), FALSE)
           /\ slots' = r
    /\ src' = Moved
    /\ pc' = "returned"
    /\ flavor' = "MovableVec"
    /\ orig' = src.elems
    /\ UNCHANGED <<N, prev, taken>>

\* A call on the live container: r is what the method did.  A panic unwinds
\* the caller.
Step(op, args, r) ==
    /\ ret' = Call(op, args, r.out, r.panic)
    /\ slots' = r.slots
    /\ prev' = slots
    /\ pc' = IF r.panic THEN "done" ELSE "returned"
    /\ UNCHANGED <<src, flavor, N, orig>>

\* The indices of range that name a slot of s.
Covered(s, start, end) == {i \in start..(end - 1) : InBounds(s, i)}

Take(index) ==
    /\ pc = "live"
    /\ LET r == IF flavor = "MovableArray" THEN MovableArray_take(slots, index)
                ELSE MovableVec_take(slots, index)
       IN  /\ Step("take", <<index>>, r)
           /\ taken' = IF r.panic THEN taken ELSE taken \cup {index}

TakeRangeVec(start, end) ==
    /\ pc = "live"
    /\ LET r == IF flavor = "MovableArray"
                THEN MovableArray_take_range_vec(slots, <<start, end>>)
                ELSE MovableVec_take_range_vec(slots, <<start, end>>)
       IN  Step("take_range_vec", <<start, end>>, r)
    /\ taken' = taken \cup Covered(slots, start, end)

TakeRangeArray(S, start, end) ==
    /\ pc = "live"
    /\ LET r == IF flavor = "MovableArray"
                THEN MovableArray_take_range_array(slots, <<start, end>>, S)
                ELSE MovableVec_take_range_array(slots, <<start, end>>, S)
       IN  Step("take_range_array", <<start, end, S>>, r)
    /\ taken' = taken \cup Covered(slots, start, end)

LenCall ==
    /\ pc = "live"
    /\ LET n == IF flavor = "MovableArray" THEN MovableArray_len(slots, N)
                ELSE MovableVec_len(slots)
       IN  Step("len", <<>>, Outcome(slots, n))
    /\ UNCHANGED taken

IndexCall(index) ==
    /\ pc = "live"
    /\ flavor = "MovableArray"
    /\ Step("index", <<index>>, MovableArray_index(slots, index))
    /\ UNCHANGED taken

\* container[index] = v
IndexMutStore(index, v) ==
    /\ pc = "live"
    /\ flavor = "MovableArray"
    /\ LET r == MovableArray_index_mut(slots, index, v)
       IN  /\ Step("index_mut", <<index, v>>, r)
           /\ taken' = IF r.panic THEN taken ELSE taken \ {index}

IntoInner ==
    /\ pc = "live"
    /\ LET out == IF flavor = "MovableArray" THEN MovableArray_into_inner(slots)
                  ELSE MovableVec_into_inner(slots)
       IN  ret' = Call("into_inner", <<>>, out, FALSE)
    /\ pc' = "done"
    /\ prev' = slots
    /\ UNCHANGED <<src, flavor, N, slots, orig, taken>>

\* map consumes the container and returns a new one, of which nothing is taken yet.
Map(f) ==
    /\ pc = "live"
    /\ LET out == IF flavor = "MovableArray" THEN MovableArray_map(slots, f)
                  ELSE MovableVec_map(slots, f)
       IN  Step("map", <<f>>, Outcome(out, <<>>))
    /\ taken' = {}

\* The caller is done with the value the last call returned and goes on.
Continue ==
    /\ pc = "returned"
    /\ pc' = "live"
    /\ ret' = NoCall
    /\ prev' = slots
    /\ UNCHANGED <<src, flavor, N, slots, orig, taken>>

Construct ==
    \/ \E n \in Sizes : CallMoveVecToArray(n)
    \/ \E entry \in FixedEntries, n \in Sizes : ConstructFixed(entry, n)
    \/ \E entry \in DynEntries : ConstructDyn(entry)

Takes ==
    \/ \E index \in Sizes : Take(index)
    \/ \E start \in Sizes, end \in Sizes : TakeRangeVec(start, end)
    \/ \E S \in Sizes, start \in Sizes, end \in Sizes : TakeRangeArray(S, start, end)

Next ==
    \/ Construct
    \/ Takes
    \/ LenCall
    \/ \E index \in Sizes : IndexCall(index)
    \/ \E index \in Sizes, v \in OptionT : IndexMutStore(index, v)
    \/ IntoInner
    \/ \E f \in Fns : Map(f)
    \/ Continue

Spec == Init /\ [][Next]_vars

\* Only construction and the take family: a container nobody stores into or maps.
NextTake == Construct \/ Takes \/ Continue

TakeSpec == Init /\ [][NextTake]_vars

TypeOK ==
    /\ pc \in {"start", "live", "returned", "done"}
    /\ flavor \in {"none", "MovableArray", "MovableVec"}
    /\ N \in Sizes
    /\ slots \in SeqsUpTo(OptionT, MaxLen)
    /\ taken \subseteq Sizes

\* ----------------------------------------------------------------- claims
\* What the last call was given.
ArgVec == ret.args[1]           \* the source handed to a constructing call
ArgN == ret.args[2]             \* ... and its const-generic size
ArgIndex == ret.args[1]         \* take / index
ArgStart == ret.args[1]         \* take_range_vec / take_range_array
ArgEnd == ret.args[2]
ArgS == ret.args[3]             \* take_range_array::<S>

\* The number of indices of the half-open range start..end.
RangeCount(start, end) == IF end > start THEN end - start ELSE 0

\* The container's own methods, by flavor.
ContainerLen ==
    IF flavor = "MovableArray" THEN MovableArray_len(slots, N) ELSE MovableVec_len(slots)
TakeOf(s, index) ==
    IF flavor = "MovableArray" THEN MovableArray_take(s, index) ELSE MovableVec_take(s, index)
TakeRangeVecOf(s, range) ==
    IF flavor = "MovableArray" THEN MovableArray_take_range_vec(s, range)
    ELSE MovableVec_take_range_vec(s, range)

\* Every slot of s still holds the element of the source at its position.
Untouched(s) ==
    /\ Len(s) = Len(orig)
    /\ \A k \in 1..Len(s) : s[k] = Some(orig[k])

\* C1: move_vec_to_array::<T, N>(v) with v.len() == N and v.capacity() == N
\* returns Ok with an array of exactly N elements, the i-th being v's i-th.
C1_RoundTrip ==
    (/\ ret.op = "move_vec_to_array"
     /\ Len(ArgVec.elems) = ArgN
     /\ ArgVec.cap = ArgN)
    => /\ ret.out.tag = "Ok"
       /\ DOMAIN ret.out.value = 1..ArgN
       /\ \A i \in 0..(ArgN - 1) : At(ret.out.value, i) = At(ArgVec.elems, i)

C1_Witness ==
    /\ ret.op = "move_vec_to_array"
    /\ ret.out.tag = "Ok"
    /\ ArgN = 2
    /\ ret.out.value[1] # ret.out.value[2]

\* C2: move_vec_to_array::<T, N>(v) with v.len() != N or v.capacity() != N
\* returns LengthUnmatch{expected: N, got: v.len()}, also when only the
\* capacity differs.
C2_MismatchRejected ==
    (/\ ret.op = "move_vec_to_array"
     /\ (Len(ArgVec.elems) # ArgN \/ ArgVec.cap # ArgN))
    => ret.out = LengthUnmatch(ArgN, Len(ArgVec.elems))

C2_Witness ==
    /\ ret.op = "move_vec_to_array"
    /\ Len(ArgVec.elems) = ArgN
    /\ ArgVec.cap # ArgN
    /\ ret.out.tag = "Err"
    /\ ret.out.got = ArgN

\* C3: on a container that is only constructed and taken from, take(i) with a
\* valid i returns Some(the i-th element of the source) if nothing has taken
\* index i before, and None if something has, whatever was taken at other
\* indices in between.
C3_TakeOnce ==
    [][(pc = "live" /\ ret'.op = "take" /\ ~ret'.panic)
        => ret'.out = IF ret'.args[1] \in taken
                      THEN None
                      ELSE Some(At(orig, ret'.args[1]))]_vars

C3_Witness ==
    /\ ret.op = "take"
    /\ ~ret.panic
    /\ ret.out = None
    /\ At(prev, ArgIndex) = None
    /\ \E j \in taken : j # ArgIndex

\* C4 as stated: under take, take_range_vec, take_range_array and the index and
\* mutable-index accessors, a slot that is empty never becomes present again.
C4_NeverRefilled_AsStated ==
    ret.op \in {"take", "take_range_vec", "take_range_array", "index", "index_mut"}
    => \A k \in 1..Len(prev) : prev[k] = None => slots[k] = None

\* C4 amended: under take, take_range_vec, take_range_array and the read-only
\* index accessor, a slot that is empty never becomes present again.
C4_NeverRefilled ==
    ret.op \in {"take", "take_range_vec", "take_range_array", "index"}
    => /\ Len(slots) = Len(prev)
       /\ \A k \in 1..Len(prev) : prev[k] = None => slots[k] = None

C4_Witness ==
    /\ ret.op = "take"
    /\ ~ret.panic
    /\ \E k \in 1..Len(prev) : k - 1 # ArgIndex /\ prev[k] = None /\ slots[k] = None

\* C5: the slot count never changes: after any calls len() returns the length
\* the container was built with, and map(f) returns a container of the same
\* length whose slot i is f applied to the old slot i.
C5_LenInvariant ==
    /\ pc \in {"live", "returned"} => ContainerLen = Len(orig) /\ Len(slots) = Len(orig)
    /\ ret.op = "len" => ret.out = Len(orig)
    /\ ret.op = "map"
        => /\ ContainerLen = Len(prev)
           /\ Len(slots) = Len(prev)
           /\ \A k \in 1..Len(prev) : slots[k] = ret.args[1][prev[k]]

C5_Witness ==
    /\ ret.op = "map"
    /\ Len(slots) = 2
    /\ prev[1] = None
    /\ slots[1] # None
    /\ slots[2] # prev[2]

\* C6: on an untouched container, take_range_vec(a..b) with a <= b <= len()
\* returns Some of the source's elements a, a+1, ..., b-1 in that order; after
\* it take(i) returns None for every i in a..b, and every slot outside a..b is
\* still present.
C6_RangeTake ==
    (/\ ret.op = "take_range_vec"
     /\ Untouched(prev)
     /\ ArgStart <= ArgEnd
     /\ ArgEnd <= Len(prev))
    => /\ ret.out.elems = [k \in 1..(ArgEnd - ArgStart) |-> Some(At(orig, ArgStart + k - 1))]
       /\ \A i \in ArgStart..(ArgEnd - 1) :
            ~TakeOf(slots, i).panic /\ TakeOf(slots, i).out = None
       /\ \A i \in 0..(Len(slots) - 1) :
            i \notin ArgStart..(ArgEnd - 1) => At(slots, i) = Some(At(orig, i))

C6_Witness ==
    /\ ret.op = "take_range_vec"
    /\ Untouched(prev)
    /\ ArgStart = 0
    /\ ArgEnd = 2
    /\ Len(ret.out.elems) = 2
    /\ ret.out.elems[1] # ret.out.elems[2]

\* C7 as stated: take_range_vec never faults and an index of the range that is
\* >= the slot count yields no element of the result; take(index) with
\* index >= the slot count faults.
C7_Lenient_AsStated ==
    /\ ret.op = "take_range_vec"
        => /\ ~ret.panic
           /\ Len(ret.out.elems) = Cardinality(Covered(prev, ArgStart, ArgEnd))
    /\ (ret.op = "take" /\ ~InBounds(prev, ArgIndex)) => ret.panic

\* C7 amended: take_range_vec never faults, its result has one entry per index
\* of the range, and the entry of an index >= the slot count is None;
\* take(index) with index >= the slot count faults and changes no slot.
C7_Lenient ==
    /\ ret.op = "take_range_vec"
        => /\ ~ret.panic
           /\ Len(ret.out.elems) = RangeCount(ArgStart, ArgEnd)
           /\ \A k \in 1..RangeCount(ArgStart, ArgEnd) :
                ~InBounds(prev, ArgStart + k - 1) => ret.out.elems[k] = None
    /\ (ret.op = "take" /\ ~InBounds(prev, ArgIndex)) => ret.panic /\ slots = prev

C7_Witness ==
    /\ ret.op = "take_range_vec"
    /\ ArgStart < Len(prev)
    /\ ArgEnd > Len(prev)
    /\ ret.out.elems[1] # None
    /\ ret.out.elems[ArgEnd - ArgStart] = None

\* C8: take_range_array::<S>(range) returns LengthUnmatch{expected: S, got: the
\* number of indices of range} exactly when that number differs from S, and
\* otherwise Ok with, position by position, what take_range_vec(range) returns
\* on the same slots.
C8_RangeArray ==
    ret.op = "take_range_array"
    => LET n == RangeCount(ArgStart, ArgEnd)
           v == TakeRangeVecOf(prev, <<ArgStart, ArgEnd>>)
       IN  /\ ~ret.panic
           /\ (ret.out.tag = "Err") <=> (n # ArgS)
           /\ n # ArgS => ret.out = LengthUnmatch(ArgS, n)
           /\ n = ArgS
                => /\ ret.out.tag = "Ok"
                   /\ DOMAIN ret.out.value = 1..ArgS
                   /\ \A k \in 1..ArgS : ret.out.value[k] = v.out.elems[k]
                   /\ slots = v.slots

C8_Witness ==
    /\ ret.op = "take_range_array"
    /\ ret.out.tag = "Ok"
    /\ ArgS = 2
    /\ ret.out.value[1] # None
    /\ ret.out.value[2] # None

\* C9: building a MovableArray<T, N> from a vector succeeds iff the vector's
\* len and capacity both equal N (else LengthUnmatch{expected: N, got: len}),
\* from an array it always succeeds; building a MovableVec never fails, and it
\* has one present slot per element of the source.
C9_Construction ==
    /\ ret.op \in FixedEntries
        => IF ArgVec.kind = "Vec"
           THEN IF Len(ArgVec.elems) = ArgN /\ ArgVec.cap = ArgN
                THEN ret.out.tag = "Ok" /\ pc = "returned"
                ELSE ret.out = LengthUnmatch(ArgN, Len(ArgVec.elems)) /\ pc = "done"
           ELSE ret.out.tag = "Ok" /\ pc = "returned"
    /\ ret.op \in DynEntries
        => /\ ret.out.tag = "Ok"
           /\ pc = "returned"
           /\ ContainerLen = Len(ArgVec.elems)
           /\ \A k \in 1..Len(ArgVec.elems) : slots[k] = Some(ArgVec.elems[k])

C9_Witness ==
    /\ ret.op \in FixedEntries
    /\ ArgVec.kind = "Vec"
    /\ Len(ArgVec.elems) = ArgN
    /\ ArgVec.cap # ArgN
    /\ ret.out.tag = "Err"

\* C10: when take_range_array::<S> returns LengthUnmatch, the slots are exactly
\* as they were before the call.
C10_NoPartialFailure ==
    (ret.op = "take_range_array" /\ ret.out.tag = "Err") => slots = prev

====
